---- MODULE Spec2Model ----
(***************************************************************************)
(* Model of the three Markdown -> WordPress publishers of the repository:  *)
(*   "publish" : src/scripts/publish.py        (folder walk, images, terms)*)
(*   "strict"  : src/scripts/publish_to_wp.py  (slug is required)          *)
(*   "root"    : src/publish_to_wp.py          (raise_for_status wrappers) *)
(* The remote site is the only shared state.  Each HTTP exchange answers   *)
(* "ok" (2xx, expected JSON), "err" (non-2xx, JSON error object) or "exc"  *)
(* (network error: requests raises).  A search endpoint answers with the   *)
(* items whose name/title contains the query, ignoring case; the code only *)
(* ever reads the first item, which may be any of them.                    *)
(***************************************************************************)
EXTENDS Integers, Sequences, FiniteSets, TLC

\* ------------------------------------------------------------------ bounds
MaxRuns == 2
MaxFaults == 1

\* ----------------------------------------------------------------- strings
\* Python strings whose content matters are sequences of characters.
Lower(c) == CASE c = "G" -> "g" [] c = "T" -> "t" [] OTHER -> c

LowerStr(s) == [i \in 1..Len(s) |-> Lower(s[i])]

StartsAt(s, sub, i) ==
  /\ i + Len(sub) - 1 <= Len(s)
  /\ SubSeq(s, i, i + Len(sub) - 1) = sub

Contains(s, sub) == \E i \in 1..(Len(s) - Len(sub) + 1) : StartsAt(s, sub, i)

EndsWith(s, suf) == Len(suf) <= Len(s) /\ StartsAt(s, suf, Len(s) - Len(suf) + 1)

\* str.replace(old, new) for a non-empty old: leftmost, non-overlapping.
RECURSIVE Replace(_, _, _)
Replace(s, old, new) ==
  IF Len(s) < Len(old) THEN s
  ELSE IF StartsAt(s, old, 1)
       THEN new \o Replace(SubSeq(s, Len(old) + 1, Len(s)), old, new)
       ELSE <<s[1]>> \o Replace(Tail(s), old, new)

PNG == <<".", "p", "n", "g">>
JPG == <<".", "j", "p", "g">>
JPEG == <<".", "j", "p", "e", "g">>

\* img.lower().endswith((".png", ".jpg", ".jpeg"))
IsImage(img) ==
  \/ EndsWith(LowerStr(img), PNG)
  \/ EndsWith(LowerStr(img), JPG)
  \/ EndsWith(LowerStr(img), JPEG)

\* ------------------------------------------------------------ python None
None == 0            \* ids handed out by the remote are >= 1
NoFile == <<>>       \* frontmatter key featured_image absent
NoUrl == <<>>
NoMedia == [id |-> None, title |-> <<>>, url |-> NoUrl, alt |-> ""]
NoTerm == [id |-> None, name |-> <<>>, description |-> "", icon |-> ""]

\* ------------------------------------------------------------ content tree
F_a == <<"a">> \o PNG
F_ba == <<"b", "a">> \o PNG
F_c == <<"c">> \o JPG
F_index == <<"i", "n", "d", "e", "x", ".", "m", "d">>

\* A category/tag entry of the frontmatter.  A bare string is the entry with
\* description "" and no icon, which is what the code normalises it to.
T_Golang == [name |-> <<"G", "o", "l", "a", "n", "g">>, description |-> "", icon |-> ""]
T_Go == [name |-> <<"G", "o">>, description |-> "d1", icon |-> ""]
T_go == [name |-> <<"g", "o">>, description |-> "d2", icon |-> ""]
T_Tech == [name |-> <<"T", "e", "c", "h">>, description |-> "d1", icon |-> "i1"]

\* One Markdown file (with its folder).  fm is the shape of the frontmatter
\* block: "absent" (text does not start with ---), "unclosed" (one --- only),
\* "empty" (nothing between the markers), "badyaml" (not parseable) or "map".
\* The other fields are the keys of the mapping; "" / <<>> stand for a key
\* that is not there.  listing is os.listdir(root) in the order returned.
E_hello ==
  [dir |-> "hello-dir", fm |-> "map", title |-> "Hello", slug |-> "hello",
   featured |-> F_c, featuredPresent |-> TRUE, alt |-> "alt",
   listing |-> <<F_index, F_c>>, body |-> <<"!">> \o F_c \o <<"+">> \o F_c,
   cats |-> <<T_Tech>>, tags |-> <<>>]

E_imgs ==
  [dir |-> "imgs", fm |-> "map", title |-> "", slug |-> "",
   featured |-> NoFile, featuredPresent |-> FALSE, alt |-> "",
   listing |-> <<F_a, F_ba>>, body |-> F_ba \o <<"+">> \o F_a,
   cats |-> <<T_Golang, T_Go>>, tags |-> <<T_Go, T_go>>]

E_imgsRev == [E_imgs EXCEPT !.listing = <<F_ba, F_a>>]

E_missing ==
  [dir |-> "other", fm |-> "map", title |-> "Hello", slug |-> "",
   featured |-> F_c, featuredPresent |-> FALSE, alt |-> "",
   listing |-> <<F_a>>, body |-> F_a,
   cats |-> <<T_Tech, T_Tech>>, tags |-> <<>>]

E_featOther ==
  [dir |-> "feat", fm |-> "map", title |-> "", slug |-> "feat",
   featured |-> F_c, featuredPresent |-> TRUE, alt |-> "",
   listing |-> <<F_a, F_c, F_ba>>, body |-> F_a,
   cats |-> <<>>, tags |-> <<T_Golang>>]

E_plain == [E_hello EXCEPT !.fm = "absent", !.dir = "plain"]
E_empty == [E_hello EXCEPT !.fm = "empty", !.dir = "empty"]
E_unclosed == [E_hello EXCEPT !.fm = "unclosed", !.dir = "unclosed"]
E_badyaml == [E_hello EXCEPT !.fm = "badyaml", !.dir = "bad"]

Trees ==
  { <<E_hello, E_imgs>>,
    <<E_imgsRev, E_hello>>,
    <<E_missing, E_hello>>,
    <<E_featOther, E_missing>>,
    <<E_plain, E_hello>>,
    <<E_empty, E_hello>>,
    <<E_unclosed, E_hello>>,
    <<E_badyaml, E_hello>> }

Variants == {"publish", "strict", "root"}

\* ------------------------------------------------------------------- state
VARIABLES
  variant,            \* which script is being run
  tree,               \* the content directory
  run,                \* number of the current run of the script
  idx,                \* position of the walk in the tree
  pc,                 \* position inside the loop body
  faults,             \* failed exchanges so far (bounded by MaxFaults)
  wpMedia, wpCats, wpTags, wpPosts, nextId,      \* the remote site
  meta,               \* parsed frontmatter of the current file
  raw_md,             \* body text, rewritten as images are resolved
  featured_media_id,
  imgIdx, termIdx,    \* loop counters
  categories, tags,   \* resolved term ids
  write,              \* the post request of the current file
  termOp,             \* what the last term resolution did
  imgOp,              \* what the last upload_image call did
  declRes, firstRes,  \* id of the declared featured file / first listed image
  resolved,           \* (filename, url) pairs substituted into raw_md
  failures,           \* failures logged or raised since the first run began
  stats               \* requests issued in the current run

vars ==
  <<variant, tree, run, idx, pc, faults, wpMedia, wpCats, wpTags, wpPosts,
    nextId, meta, raw_md, featured_media_id, imgIdx, termIdx, categories,
    tags, write, termOp, imgOp, declRes, firstRes, resolved, failures, stats>>

remote == <<wpMedia, wpCats, wpTags, wpPosts, nextId>>
locals == <<meta, raw_md, featured_media_id, imgIdx, termIdx, categories, tags>>
ghosts == <<write, termOp, imgOp, declRes, firstRes, resolved>>

NoWrite ==
  [kind |-> "none", slug |-> "", featured |-> None, found |-> None,
   lookup |-> "ok", existed |-> FALSE]
NoTermOp ==
  [name |-> <<>>, found |-> FALSE, hit |-> NoTerm, updated |-> FALSE,
   differs |-> FALSE, created |-> FALSE, ret |-> None]
NoImgOp == [fname |-> <<>>, reused |-> FALSE, hit |-> NoMedia, uploaded |-> FALSE]
NoStats == [uploads |-> 0, termCreates |-> 0, postCreates |-> 0, postUpdates |-> 0]
NoMeta ==
  [title |-> "", slug |-> "", featured |-> NoFile, alt |-> "",
   hasCats |-> FALSE, cats |-> <<>>, hasTags |-> FALSE, tags |-> <<>>]

Init ==
  /\ variant \in Variants
  /\ tree \in Trees
  /\ run = 1
  /\ idx = 1
  /\ pc = "load"
  /\ faults = 0
  /\ wpMedia = {} /\ wpCats = {} /\ wpTags = {} /\ wpPosts = {}
  /\ nextId = 1
  /\ meta = NoMeta
  /\ raw_md = <<>>
  /\ featured_media_id = None
  /\ imgIdx = 1 /\ termIdx = 1
  /\ categories = <<>> /\ tags = <<>>
  /\ write = NoWrite
  /\ termOp = NoTermOp
  /\ imgOp = NoImgOp
  /\ declRes = None /\ firstRes = None
  /\ resolved = <<>>
  /\ failures = 0
  /\ stats = NoStats

\* --------------------------------------------------------------- responses
Responses == {"ok", "err", "exc"}
Bad(r) == IF r = "ok" THEN 0 ELSE 1

\* The mapping a frontmatter block of shape "map" parses to.
MetaOf(e) ==
  [title |-> e.title, slug |-> e.slug, featured |-> e.featured, alt |-> e.alt,
   hasCats |-> TRUE, cats |-> e.cats, hasTags |-> TRUE, tags |-> e.tags]

Entry == tree[idx]

\* ------------------------------------------------------------- remote site
MediaSearch(fname) ==
  {m \in wpMedia : Contains(LowerStr(m.title), LowerStr(fname))}

TermSearch(terms, name) ==
  {t \in terms : Contains(LowerStr(t.name), LowerStr(name))}

PostsBySlug(slug) == {p \in wpPosts : p.slug = slug}

\* POST media/<id> {"alt_text": ...}
RemoteSetAlt(media, id, alt) ==
  {IF m.id = id THEN [m EXCEPT !.alt = alt] ELSE m : m \in media}

\* POST categories/<id> or tags/<id> with the fields of update_data
RemoteUpdateTerm(terms, id, setDesc, description, setIcon, icon) ==
  {IF t.id # id THEN t
   ELSE [t EXCEPT !.description = IF setDesc THEN description ELSE @,
                  !.icon = IF setIcon THEN icon ELSE @] : t \in terms}

\* POST posts/<id>: the keys of post_data replace the stored fields
RemoteUpdatePost(id, slug, featured) ==
  {IF p.id # id THEN p
   ELSE [p EXCEPT !.slug = slug,
                  !.featured = IF featured # None THEN featured ELSE @] : p \in wpPosts}

\* ============================================================= scripts/publish.py
\* The outcomes of wp_find_existing_image: data[0] of a non-empty list, else None.
wp_find_existing_image(fname, sr) ==
  IF sr = "ok" /\ MediaSearch(fname) # {} THEN MediaSearch(fname) ELSE {NoMedia}

UrlPrefix == <<"u", "/">>

\* upload_image: sr answers the search, existing is what the search returned,
\* ur answers the upload.  new is the media item the remote stored, if any.
upload_image(fname, present, sr, existing, ur) ==
  IF sr = "exc"
  THEN [exc |-> TRUE, id |-> None, url |-> NoUrl, new |-> {}, missing |-> FALSE,
        sentUpload |-> FALSE, reused |-> FALSE]
  ELSE IF existing # NoMedia
  THEN [exc |-> FALSE, id |-> existing.id, url |-> existing.url, new |-> {},
        missing |-> FALSE, sentUpload |-> FALSE, reused |-> TRUE]
  ELSE IF ~present
  THEN [exc |-> FALSE, id |-> None, url |-> NoUrl, new |-> {}, missing |-> TRUE,
        sentUpload |-> FALSE, reused |-> FALSE]
  ELSE IF ur = "ok"
  THEN [exc |-> FALSE, id |-> nextId, url |-> UrlPrefix \o fname,
        new |-> {[id |-> nextId, title |-> fname, url |-> UrlPrefix \o fname, alt |-> ""]},
        missing |-> FALSE, sentUpload |-> TRUE, reused |-> FALSE]
  ELSE [exc |-> TRUE, id |-> None, url |-> NoUrl, new |-> {}, missing |-> FALSE,
        sentUpload |-> TRUE, reused |-> FALSE]

\* A fallback that overwrites a featured image that is already set.
FeaturedFallbackLast(current, media_id) == media_id

\* featured_media_id after one resolved image of the listing (lines 314-315)
FeaturedFallback(current, media_id) == IF current = None THEN media_id ELSE current

\* slug = post_md.get("slug", os.path.basename(root))
PublishSlug == IF meta.slug = "" THEN Entry.dir ELSE meta.slug

\* The walk has visited every folder / file: the script returns.
Finish ==
  /\ pc = "load" /\ idx > Len(tree)
  /\ pc' = "done"
  /\ UNCHANGED <<variant, tree, run, idx, faults, remote, locals, ghosts, failures, stats>>

\* Lines 270-292: frontmatter.load and the per-post locals.  frontmatter.load
\* raises on a block that is not YAML and gives empty metadata for a text
\* without a (closed, non-empty) block.
P_LoadPost ==
  /\ variant = "publish" /\ pc = "load" /\ idx <= Len(tree)
  /\ IF Entry.fm = "badyaml"
     THEN /\ pc' = "crashed"
          /\ failures' = failures + 1
          /\ UNCHANGED <<locals, ghosts>>
     ELSE /\ pc' = "featured"
          /\ meta' = IF Entry.fm = "map" THEN MetaOf(Entry) ELSE NoMeta
          /\ raw_md' = Entry.body
          /\ featured_media_id' = None
          /\ write' = NoWrite
          /\ declRes' = None /\ firstRes' = None
          /\ resolved' = <<>>
          /\ UNCHANGED <<imgIdx, termIdx, categories, tags, termOp, imgOp, failures>>
  /\ UNCHANGED <<variant, tree, run, idx, faults, remote, stats>>

\* Lines 294-301: the declared featured image and its alt text.
P_Featured ==
  /\ variant = "publish" /\ pc = "featured"
  /\ IF meta.featured = NoFile
     THEN /\ pc' = "images"
          /\ imgIdx' = 1
          /\ UNCHANGED <<faults, remote, featured_media_id, imgOp, declRes, failures, stats>>
     ELSE \E sr \in Responses, ur \in Responses, ar \in Responses :
          \E existing \in wp_find_existing_image(meta.featured, sr) :
            LET res == upload_image(meta.featured, Entry.featuredPresent, sr, existing, ur)
                altSent == ~res.exc /\ res.id # None /\ meta.alt # ""
                n == Bad(sr) + (IF res.sentUpload THEN Bad(ur) ELSE 0)
                       + (IF altSent THEN Bad(ar) ELSE 0)
                stored == wpMedia \cup res.new
            IN /\ res.sentUpload \/ ur = "ok"
               /\ altSent \/ ar = "ok"
               /\ faults + n <= MaxFaults
               /\ faults' = faults + n
               /\ failures' = failures + n + (IF res.missing THEN 1 ELSE 0)
               /\ wpMedia' = IF altSent /\ ar = "ok"
                             THEN RemoteSetAlt(stored, res.id, meta.alt) ELSE stored
               /\ nextId' = nextId + Cardinality(res.new)
               /\ stats' = [stats EXCEPT !.uploads = @ + (IF res.sentUpload THEN 1 ELSE 0)]
               /\ imgOp' = [fname |-> meta.featured, reused |-> res.reused,
                             hit |-> existing, uploaded |-> res.new # {}]
               /\ featured_media_id' = res.id
               /\ declRes' = res.id
               /\ imgIdx' = 1
               /\ pc' = IF res.exc \/ (altSent /\ ar = "exc") THEN "crashed" ELSE "images"
               /\ UNCHANGED <<wpCats, wpTags, wpPosts>>
  /\ UNCHANGED <<variant, tree, run, idx, meta, raw_md, termIdx, categories, tags,
                 write, termOp, firstRes, resolved>>

\* Lines 306-320: one file of os.listdir(root); after the last one the body
\* goes to the renderer.
P_Image ==
  /\ variant = "publish" /\ pc = "images"
  /\ IF imgIdx > Len(Entry.listing)
     THEN /\ pc' = "cats"
          /\ termIdx' = 1
          /\ categories' = <<>>
          /\ UNCHANGED <<faults, remote, raw_md, featured_media_id, imgIdx, imgOp,
                         firstRes, resolved, failures, stats>>
     ELSE IF ~IsImage(Entry.listing[imgIdx])
     THEN /\ imgIdx' = imgIdx + 1
          /\ UNCHANGED <<pc, faults, remote, raw_md, featured_media_id, termIdx,
                         categories, imgOp, firstRes, resolved, failures, stats>>
     ELSE \E sr \in Responses, ur \in Responses :
          \E existing \in wp_find_existing_image(Entry.listing[imgIdx], sr) :
            LET img == Entry.listing[imgIdx]
                res == upload_image(img, TRUE, sr, existing, ur)
                n == Bad(sr) + (IF res.sentUpload THEN Bad(ur) ELSE 0)
            IN /\ res.sentUpload \/ ur = "ok"
               /\ faults + n <= MaxFaults
               /\ faults' = faults + n
               /\ failures' = failures + n
               /\ wpMedia' = wpMedia \cup res.new
               /\ nextId' = nextId + Cardinality(res.new)
               /\ stats' = [stats EXCEPT !.uploads = @ + (IF res.sentUpload THEN 1 ELSE 0)]
               /\ imgOp' = [fname |-> img, reused |-> res.reused,
                             hit |-> existing, uploaded |-> res.new # {}]
               /\ featured_media_id' =
                    IF res.id = None THEN featured_media_id
                    ELSE FeaturedFallback(featured_media_id, res.id)
               /\ firstRes' = IF firstRes = None THEN res.id ELSE firstRes
               /\ raw_md' = IF res.id = None THEN raw_md ELSE Replace(raw_md, img, res.url)
               /\ resolved' = IF res.id = None THEN resolved
                               ELSE Append(resolved, [fname |-> img, url |-> res.url])
               /\ imgIdx' = imgIdx + 1
               /\ pc' = IF res.exc THEN "crashed" ELSE "images"
               /\ UNCHANGED <<wpCats, wpTags, wpPosts, termIdx, categories>>
  /\ UNCHANGED <<variant, tree, run, idx, meta, tags, write, termOp, declRes>>

\* The outcomes of data[0] for a term search; NoTerm when data is not a
\* non-empty list (empty result, or an error object).
FirstTerm(terms, name, sr) ==
  IF sr = "ok" /\ TermSearch(terms, name) # {} THEN TermSearch(terms, name) ELSE {NoTerm}

\* ensure_category(cat): sr answers the search, hit is data[0], wr answers
\* the update or create request.
ensure_category(cat, sr, hit, wr) ==
  LET setDesc == cat.description # "" /\ hit.description # cat.description
      setIcon == cat.icon # ""
  IN IF sr = "exc"
     THEN [exc |-> TRUE, id |-> None, terms |-> wpCats, found |-> FALSE,
           sentUpdate |-> FALSE, sentCreate |-> FALSE]
     ELSE IF hit # NoTerm
     THEN [exc |-> (setDesc \/ setIcon) /\ wr = "exc",
           id |-> hit.id,
           terms |-> IF (setDesc \/ setIcon) /\ wr = "ok"
                     THEN RemoteUpdateTerm(wpCats, hit.id, setDesc, cat.description,
                                           setIcon, cat.icon)
                     ELSE wpCats,
           found |-> TRUE, sentUpdate |-> setDesc \/ setIcon, sentCreate |-> FALSE]
     ELSE IF wr = "ok"
     THEN [exc |-> FALSE, id |-> nextId,
           terms |-> wpCats \cup {[id |-> nextId, name |-> cat.name,
                                    description |-> cat.description, icon |-> cat.icon]},
           found |-> FALSE, sentUpdate |-> FALSE, sentCreate |-> TRUE]
     ELSE [exc |-> TRUE, id |-> None, terms |-> wpCats, found |-> FALSE,
           sentUpdate |-> FALSE, sentCreate |-> TRUE]

\* ensure_tag(tag): as ensure_category, without the icon.
ensure_tag(tag, sr, hit, wr) ==
  LET setDesc == tag.description # "" /\ hit.description # tag.description
  IN IF sr = "exc"
     THEN [exc |-> TRUE, id |-> None, terms |-> wpTags, found |-> FALSE,
           sentUpdate |-> FALSE, sentCreate |-> FALSE]
     ELSE IF hit # NoTerm
     THEN [exc |-> setDesc /\ wr = "exc",
           id |-> hit.id,
           terms |-> IF setDesc /\ wr = "ok"
                     THEN RemoteUpdateTerm(wpTags, hit.id, TRUE, tag.description, FALSE, "")
                     ELSE wpTags,
           found |-> TRUE, sentUpdate |-> setDesc, sentCreate |-> FALSE]
     ELSE IF wr = "ok"
     THEN [exc |-> FALSE, id |-> nextId,
           terms |-> wpTags \cup {[id |-> nextId, name |-> tag.name,
                                    description |-> tag.description, icon |-> ""]},
           found |-> FALSE, sentUpdate |-> FALSE, sentCreate |-> TRUE]
     ELSE [exc |-> TRUE, id |-> None, terms |-> wpTags, found |-> FALSE,
           sentUpdate |-> FALSE, sentCreate |-> TRUE]

\* Does a supplied description or icon differ from what the remote stores?
Differs(spec, hit, withIcon) ==
  \/ spec.description # "" /\ spec.description # hit.description
  \/ withIcon /\ spec.icon # "" /\ spec.icon # hit.icon

TermOpOf(spec, hit, res, withIcon) ==
  [name |-> spec.name, found |-> res.found, hit |-> hit, updated |-> res.sentUpdate,
   differs |-> res.found /\ Differs(spec, hit, withIcon),
   created |-> res.sentCreate, ret |-> res.id]

\* Line 325: one element of the categories comprehension.
P_Category ==
  /\ variant = "publish" /\ pc = "cats"
  /\ IF termIdx > Len(meta.cats)
     THEN /\ pc' = "tags"
          /\ termIdx' = 1
          /\ tags' = <<>>
          /\ UNCHANGED <<faults, remote, categories, termOp, failures, stats>>
     ELSE \E sr \in Responses, wr \in Responses :
          \E hit \in FirstTerm(wpCats, meta.cats[termIdx].name, sr) :
            LET cat == meta.cats[termIdx]
                res == ensure_category(cat, sr, hit, wr)
                sent == res.sentUpdate \/ res.sentCreate
                n == Bad(sr) + (IF sent THEN Bad(wr) ELSE 0)
            IN /\ sent \/ wr = "ok"
               /\ faults + n <= MaxFaults
               /\ faults' = faults + n
               /\ failures' = failures + n
               /\ wpCats' = res.terms
               /\ nextId' = IF res.sentCreate /\ wr = "ok" THEN nextId + 1 ELSE nextId
               /\ stats' = [stats EXCEPT !.termCreates = @ + (IF res.sentCreate THEN 1 ELSE 0)]
               /\ termOp' = TermOpOf(cat, hit, res, TRUE)
               /\ categories' = IF res.exc THEN categories ELSE Append(categories, res.id)
               /\ termIdx' = termIdx + 1
               /\ pc' = IF res.exc THEN "crashed" ELSE "cats"
               /\ tags' = tags
               /\ UNCHANGED <<wpMedia, wpTags, wpPosts>>
  /\ UNCHANGED <<variant, tree, run, idx, meta, raw_md, featured_media_id, imgIdx,
                 write, imgOp, declRes, firstRes, resolved>>

\* Line 326: one element of the tags comprehension.
P_Tag ==
  /\ variant = "publish" /\ pc = "tags"
  /\ IF termIdx > Len(meta.tags)
     THEN /\ pc' = "post"
          /\ UNCHANGED <<faults, remote, termIdx, tags, termOp, failures, stats>>
     ELSE \E sr \in Responses, wr \in Responses :
          \E hit \in FirstTerm(wpTags, meta.tags[termIdx].name, sr) :
            LET tag == meta.tags[termIdx]
                res == ensure_tag(tag, sr, hit, wr)
                sent == res.sentUpdate \/ res.sentCreate
                n == Bad(sr) + (IF sent THEN Bad(wr) ELSE 0)
            IN /\ sent \/ wr = "ok"
               /\ faults + n <= MaxFaults
               /\ faults' = faults + n
               /\ failures' = failures + n
               /\ wpTags' = res.terms
               /\ nextId' = IF res.sentCreate /\ wr = "ok" THEN nextId + 1 ELSE nextId
               /\ stats' = [stats EXCEPT !.termCreates = @ + (IF res.sentCreate THEN 1 ELSE 0)]
               /\ termOp' = TermOpOf(tag, hit, res, FALSE)
               /\ tags' = IF res.exc THEN tags ELSE Append(tags, res.id)
               /\ termIdx' = termIdx + 1
               /\ pc' = IF res.exc THEN "crashed" ELSE "tags"
               /\ UNCHANGED <<wpMedia, wpCats, wpPosts>>
  /\ UNCHANGED <<variant, tree, run, idx, meta, raw_md, featured_media_id, imgIdx,
                 categories, write, imgOp, declRes, firstRes, resolved>>

\* A lookup that reads posts[0] without looking at what kind of body came back.
find_existing_post_any(slug, lr) ==
  IF PostsBySlug(slug) # {} THEN {p.id : p \in PostsBySlug(slug)} ELSE {None}

\* find_existing_post(slug) of scripts/publish.py: the id of posts[0] when the
\* body is a non-empty list, else None.
find_existing_post(slug, lr) ==
  IF lr = "ok" /\ PostsBySlug(slug) # {}
  THEN {p.id : p \in PostsBySlug(slug)} ELSE {None}

\* The create-or-update request and what the remote does with it.
\* existing is what find_existing_post returned, wr answers the request.
WritePost(slug, featured, existing, lr, wr) ==
  /\ write' = [kind |-> IF existing # None THEN "update" ELSE "create",
               slug |-> slug, featured |-> featured, found |-> existing,
               lookup |-> lr, existed |-> PostsBySlug(slug) # {}]
  /\ wpPosts' = IF wr # "ok" THEN wpPosts
                ELSE IF existing # None THEN RemoteUpdatePost(existing, slug, featured)
                ELSE wpPosts \cup {[id |-> nextId, slug |-> slug, featured |-> featured]}
  /\ nextId' = IF wr = "ok" /\ existing = None THEN nextId + 1 ELSE nextId
  /\ stats' = IF existing # None
              THEN [stats EXCEPT !.postUpdates = @ + 1]
              ELSE [stats EXCEPT !.postCreates = @ + 1]

\* Lines 331-364: post_data, find_existing_post, update or create.
P_Post ==
  /\ variant = "publish" /\ pc = "post"
  /\ \E lr \in Responses, wr \in Responses :
     \E existing \in find_existing_post(PublishSlug, lr) :
       LET n == Bad(lr) + (IF lr # "exc" THEN Bad(wr) ELSE 0)
       IN /\ lr # "exc" \/ wr = "ok"
          /\ faults + n <= MaxFaults
          /\ faults' = faults + n
          /\ failures' = failures + n
          /\ IF lr = "exc"
             THEN /\ pc' = "crashed"
                  /\ UNCHANGED <<idx, write, wpPosts, nextId, stats>>
             ELSE /\ WritePost(PublishSlug, featured_media_id, existing, lr, wr)
                  /\ pc' = IF wr = "exc" THEN "crashed" ELSE "load"
                  /\ idx' = IF wr = "exc" THEN idx ELSE idx + 1
  /\ UNCHANGED <<variant, tree, run, wpMedia, wpCats, wpTags, locals, termOp, imgOp,
                 declRes, firstRes, resolved>>

\* ===================================================== scripts/publish_to_wp.py
\* process_markdown: split on the --- markers and yaml.safe_load the block.
\* exc: the unpacking of a two-part split or the YAML parser raised;
\* none: safe_load of an empty document returned None.
process_markdown(e) ==
  CASE e.fm = "absent" -> [exc |-> FALSE, none |-> FALSE, meta |-> NoMeta]
    [] e.fm = "map" -> [exc |-> FALSE, none |-> FALSE, meta |-> MetaOf(e)]
    [] e.fm = "empty" -> [exc |-> FALSE, none |-> TRUE, meta |-> NoMeta]
    [] OTHER -> [exc |-> TRUE, none |-> FALSE, meta |-> NoMeta]

\* find_existing_post of scripts/publish_to_wp.py: status 200 and a non-empty
\* list give the first id, anything else None.
S_find_existing_post(slug, lr) ==
  IF lr = "ok" /\ Cardinality(PostsBySlug(slug)) > 0
  THEN {p.id : p \in PostsBySlug(slug)} ELSE {None}

\* One iteration of main(): process_markdown, the slug check, publish_post.
S_File ==
  /\ variant = "strict" /\ pc = "load" /\ idx <= Len(tree)
  /\ LET pm == process_markdown(Entry)
     IN IF pm.exc \/ pm.none
        THEN /\ pc' = "crashed"
             /\ failures' = failures + 1
             /\ write' = NoWrite
             /\ UNCHANGED <<idx, faults, meta, wpPosts, nextId, stats>>
        ELSE IF pm.meta.slug = ""
        THEN /\ idx' = idx + 1
             /\ failures' = failures + 1
             /\ meta' = pm.meta
             /\ write' = NoWrite
             /\ UNCHANGED <<pc, faults, wpPosts, nextId, stats>>
        ELSE \E lr \in Responses, wr \in Responses :
             \E post_id \in S_find_existing_post(pm.meta.slug, lr) :
               LET n == Bad(lr) + (IF lr # "exc" THEN Bad(wr) ELSE 0)
               IN /\ lr # "exc" \/ wr = "ok"
                  /\ faults + n <= MaxFaults
                  /\ faults' = faults + n
                  /\ failures' = failures + n
                  /\ meta' = pm.meta
                  /\ IF lr = "exc"
                     THEN /\ pc' = "crashed"
                          /\ write' = NoWrite
                          /\ UNCHANGED <<idx, wpPosts, nextId, stats>>
                     ELSE /\ WritePost(pm.meta.slug, None, post_id, lr, wr)
                          /\ pc' = IF wr = "exc" THEN "crashed" ELSE "load"
                          /\ idx' = IF wr = "exc" THEN idx ELSE idx + 1
  /\ UNCHANGED <<variant, tree, run, wpMedia, wpCats, wpTags, raw_md, featured_media_id,
                 imgIdx, termIdx, categories, tags, termOp, imgOp, declRes, firstRes,
                 resolved>>

\* ============================================================= publish_to_wp.py
\* slugify() on the titles of the content tree.
Slugify(t) == IF t = "Hello" THEN "hello" ELSE t

\* slug = meta.get("slug", slugify(meta.get("title", Path(path).stem)))
RootSlug ==
  IF meta.slug # "" THEN meta.slug
  ELSE Slugify(IF meta.title # "" THEN meta.title ELSE Entry.dir)

\* process_md_file lines 67-88: frontmatter, slug and payload.  An empty
\* block leaves meta = None and meta.get raises.
R_Load ==
  /\ variant = "root" /\ pc = "load" /\ idx <= Len(tree)
  /\ IF Entry.fm \in {"absent", "map"}
     THEN /\ pc' = "cats"
          /\ meta' = IF Entry.fm = "map" THEN MetaOf(Entry) ELSE NoMeta
          /\ raw_md' = Entry.body
          /\ featured_media_id' = None
          /\ termIdx' = 1
          /\ categories' = <<>> /\ tags' = <<>>
          /\ write' = NoWrite
          /\ UNCHANGED <<imgIdx, termOp, imgOp, declRes, firstRes, resolved, failures>>
     ELSE /\ pc' = "crashed"
          /\ failures' = failures + 1
          /\ UNCHANGED <<locals, ghosts>>
  /\ UNCHANGED <<variant, tree, run, idx, faults, remote, stats>>

\* wp_get_or_create_term(term_name, taxonomy): wp_get and wp_post raise on a
\* failed exchange.
wp_get_or_create_term(term_name, terms, sr, hit, wr) ==
  IF sr # "ok"
  THEN [exc |-> TRUE, id |-> None, terms |-> terms, found |-> FALSE,
        sentUpdate |-> FALSE, sentCreate |-> FALSE]
  ELSE IF hit # NoTerm
  THEN [exc |-> FALSE, id |-> hit.id, terms |-> terms, found |-> TRUE,
        sentUpdate |-> FALSE, sentCreate |-> FALSE]
  ELSE IF wr = "ok"
  THEN [exc |-> FALSE, id |-> nextId,
        terms |-> terms \cup {[id |-> nextId, name |-> term_name,
                                description |-> "", icon |-> ""]},
        found |-> FALSE, sentUpdate |-> FALSE, sentCreate |-> TRUE]
  ELSE [exc |-> TRUE, id |-> None, terms |-> terms, found |-> FALSE,
        sentUpdate |-> FALSE, sentCreate |-> TRUE]

\* Lines 91-93: one element of the categories comprehension.
R_Category ==
  /\ variant = "root" /\ pc = "cats"
  /\ IF ~meta.hasCats \/ termIdx > Len(meta.cats)
     THEN /\ pc' = "tags"
          /\ termIdx' = 1
          /\ UNCHANGED <<faults, remote, categories, termOp, failures, stats>>
     ELSE \E sr \in Responses, wr \in Responses :
          \E hit \in FirstTerm(wpCats, meta.cats[termIdx].name, sr) :
            LET cat == meta.cats[termIdx]
                res == wp_get_or_create_term(cat.name, wpCats, sr, hit, wr)
                n == Bad(sr) + (IF res.sentCreate THEN Bad(wr) ELSE 0)
            IN /\ res.sentCreate \/ wr = "ok"
               /\ faults + n <= MaxFaults
               /\ faults' = faults + n
               /\ failures' = failures + n
               /\ wpCats' = res.terms
               /\ nextId' = IF res.sentCreate /\ wr = "ok" THEN nextId + 1 ELSE nextId
               /\ stats' = [stats EXCEPT !.termCreates = @ + (IF res.sentCreate THEN 1 ELSE 0)]
               /\ termOp' = TermOpOf(cat, hit, res, TRUE)
               /\ categories' = IF res.exc THEN categories ELSE Append(categories, res.id)
               /\ termIdx' = termIdx + 1
               /\ pc' = IF res.exc THEN "crashed" ELSE "cats"
               /\ UNCHANGED <<wpMedia, wpTags, wpPosts>>
  /\ UNCHANGED <<variant, tree, run, idx, meta, raw_md, featured_media_id, imgIdx, tags,
                 write, imgOp, declRes, firstRes, resolved>>

\* Lines 96-98: one element of the tags comprehension.
R_Tag ==
  /\ variant = "root" /\ pc = "tags"
  /\ IF ~meta.hasTags \/ termIdx > Len(meta.tags)
     THEN /\ pc' = "featured"
          /\ UNCHANGED <<faults, remote, termIdx, tags, termOp, failures, stats>>
     ELSE \E sr \in Responses, wr \in Responses :
          \E hit \in FirstTerm(wpTags, meta.tags[termIdx].name, sr) :
            LET tag == meta.tags[termIdx]
                res == wp_get_or_create_term(tag.name, wpTags, sr, hit, wr)
                n == Bad(sr) + (IF res.sentCreate THEN Bad(wr) ELSE 0)
            IN /\ res.sentCreate \/ wr = "ok"
               /\ faults + n <= MaxFaults
               /\ faults' = faults + n
               /\ failures' = failures + n
               /\ wpTags' = res.terms
               /\ nextId' = IF res.sentCreate /\ wr = "ok" THEN nextId + 1 ELSE nextId
               /\ stats' = [stats EXCEPT !.termCreates = @ + (IF res.sentCreate THEN 1 ELSE 0)]
               /\ termOp' = TermOpOf(tag, hit, res, FALSE)
               /\ tags' = IF res.exc THEN tags ELSE Append(tags, res.id)
               /\ termIdx' = termIdx + 1
               /\ pc' = IF res.exc THEN "crashed" ELSE "tags"
               /\ UNCHANGED <<wpMedia, wpCats, wpPosts>>
  /\ UNCHANGED <<variant, tree, run, idx, meta, raw_md, featured_media_id, imgIdx,
                 categories, write, imgOp, declRes, firstRes, resolved>>

\* wp_upload_media(image_path): open the file and POST it, no lookup first.
wp_upload_media(fname, present, ur) ==
  IF ~present
  THEN [exc |-> TRUE, id |-> None, new |-> {}, sentUpload |-> FALSE]
  ELSE IF ur = "ok"
  THEN [exc |-> FALSE, id |-> nextId,
        new |-> {[id |-> nextId, title |-> fname, url |-> UrlPrefix \o fname, alt |-> ""]},
        sentUpload |-> TRUE]
  ELSE [exc |-> TRUE, id |-> None, new |-> {}, sentUpload |-> TRUE]

\* Lines 101-103: the featured image.
R_Featured ==
  /\ variant = "root" /\ pc = "featured"
  /\ IF meta.featured = NoFile
     THEN /\ pc' = "post"
          /\ UNCHANGED <<faults, remote, featured_media_id, imgOp, failures, stats>>
     ELSE \E ur \in Responses :
            LET res == wp_upload_media(meta.featured, Entry.featuredPresent, ur)
                n == IF res.sentUpload THEN Bad(ur) ELSE 0
            IN /\ res.sentUpload \/ ur = "ok"
               /\ faults + n <= MaxFaults
               /\ faults' = faults + n
               /\ failures' = failures + (IF res.exc THEN 1 ELSE 0)
               /\ wpMedia' = wpMedia \cup res.new
               /\ nextId' = nextId + Cardinality(res.new)
               /\ stats' = [stats EXCEPT !.uploads = @ + (IF res.sentUpload THEN 1 ELSE 0)]
               /\ imgOp' = [fname |-> meta.featured, reused |-> FALSE, hit |-> NoMedia,
                             uploaded |-> res.new # {}]
               /\ featured_media_id' = res.id
               /\ pc' = IF res.exc THEN "crashed" ELSE "post"
               /\ UNCHANGED <<wpCats, wpTags, wpPosts>>
  /\ UNCHANGED <<variant, tree, run, idx, meta, raw_md, imgIdx, termIdx, categories, tags,
                 write, termOp, declRes, firstRes, resolved>>

\* existing = wp_get(f"{post_type}?slug={slug}"): existing[0]["id"] or nothing
R_existing(slug) ==
  IF PostsBySlug(slug) # {} THEN {p.id : p \in PostsBySlug(slug)} ELSE {None}

\* Lines 106-113: look the slug up, then wp_put or wp_post.
R_Post ==
  /\ variant = "root" /\ pc = "post"
  /\ \E lr \in Responses, wr \in Responses :
     \E post_id \in R_existing(RootSlug) :
       LET n == Bad(lr) + (IF lr = "ok" THEN Bad(wr) ELSE 0)
       IN /\ lr = "ok" \/ wr = "ok"
          /\ faults + n <= MaxFaults
          /\ faults' = faults + n
          /\ failures' = failures + n
          /\ IF lr # "ok"
             THEN /\ pc' = "crashed"
                  /\ UNCHANGED <<idx, write, wpPosts, nextId, stats>>
             ELSE /\ WritePost(RootSlug, featured_media_id, post_id, lr, wr)
                  /\ pc' = IF wr # "ok" THEN "crashed" ELSE "load"
                  /\ idx' = IF wr # "ok" THEN idx ELSE idx + 1
  /\ UNCHANGED <<variant, tree, run, wpMedia, wpCats, wpTags, locals, termOp, imgOp,
                 declRes, firstRes, resolved>>

\* The script is started again on the same content directory.
StartRun ==
  /\ pc \in {"done", "crashed"}
  /\ run < MaxRuns
  /\ run' = run + 1
  /\ idx' = 1
  /\ pc' = "load"
  /\ meta' = NoMeta /\ raw_md' = <<>> /\ featured_media_id' = None
  /\ imgIdx' = 1 /\ termIdx' = 1 /\ categories' = <<>> /\ tags' = <<>>
  /\ write' = NoWrite /\ termOp' = NoTermOp /\ imgOp' = NoImgOp
  /\ declRes' = None /\ firstRes' = None /\ resolved' = <<>>
  /\ stats' = NoStats
  /\ UNCHANGED <<variant, tree, faults, remote, failures>>

Next ==
  \/ Finish
  \/ P_LoadPost
  \/ P_Featured
  \/ P_Image
  \/ P_Category
  \/ P_Tag
  \/ P_Post
  \/ S_File
  \/ R_Load
  \/ R_Category
  \/ R_Tag
  \/ R_Featured
  \/ R_Post
  \/ StartRun

Spec == Init /\ [][Next]_vars

\* ================================================================== claims

\* C1: a create request is issued only when no remote post has the slug, so
\* the remote never holds two posts with the same slug.
C1_OnePostPerSlug ==
  /\ write.kind = "create" => ~write.existed
  /\ \A p \in wpPosts, q \in wpPosts : p.slug = q.slug => p.id = q.id

\* C2: a term resolution that found an existing term found one whose name
\* equals the requested name, ignoring case (never a mere substring match).
C2_ExactNameMatch ==
  termOp.found => LowerStr(termOp.hit.name) = LowerStr(termOp.name)

\* C3: in the run after a run without failures there is no media upload, no
\* term create and no post create, and one update per post once it is done.
C3_RerunIdempotent ==
  (run = 2 /\ failures = 0) =>
     /\ stats.uploads = 0
     /\ stats.termCreates = 0
     /\ stats.postCreates = 0
     /\ pc = "done" => stats.postUpdates = Len(tree)

\* C4: the run never ends on a failure while posts remain to be processed.
C4_FailureIsolation ==
  variant \in {"publish", "root"} => ~(pc = "crashed" /\ idx < Len(tree))

NoSlugFile(e) == e.fm \in {"absent", "empty"} \/ (e.fm = "map" /\ e.slug = "")

\* C5: in the strict variant a file that defines no slug does not end the
\* run, and once it is passed no post request was issued for it.
C5_MissingSlugSkipped ==
  variant = "strict" =>
     /\ (idx <= Len(tree) /\ NoSlugFile(tree[idx])) => pc # "crashed"
     /\ (idx > 1 /\ pc = "load" /\ NoSlugFile(tree[idx - 1])) => write.kind = "none"

RECURSIVE MaskUrls(_, _)
MaskUrls(body, pairs) ==
  IF pairs = <<>> THEN body
  ELSE MaskUrls(Replace(body, Head(pairs).url, <<"#">>), Tail(pairs))

\* C6: the body handed to the renderer holds the URL of every resolved image
\* whose filename occurs in the original body, and no filename outside a URL.
C6_ImageSubstitution ==
  (variant = "publish" /\ pc \in {"cats", "tags", "post"}) =>
     \A k \in 1..Len(resolved) :
        /\ Contains(Entry.body, resolved[k].fname) => Contains(raw_md, resolved[k].url)
        /\ ~Contains(MaskUrls(raw_md, resolved), resolved[k].fname)

\* C7: upload_image reuses a remote media item only if its title equals the
\* local filename.
C7_ExactTitleMatch ==
  imgOp.reused => imgOp.hit.title = imgOp.fname

\* C8: when the term exists, ensure_category / ensure_tag send an update
\* only if a supplied description or icon differs from the stored one, and
\* return the id of the existing term.
C8_UpdateOnlyIfDiffers ==
  (variant = "publish" /\ termOp.found) =>
     /\ termOp.updated => termOp.differs
     /\ termOp.ret = termOp.hit.id

\* C9 as stated: a declared featured_image always decides featured_media.
C9_DeclaredAlwaysWins ==
  (variant = "publish" /\ write.kind # "none" /\ meta.featured # NoFile) =>
     write.featured = declRes

\* C9 amended: featured_media is the id the declared file resolved to when it
\* resolved to one; the first resolved image of the listing is used when no
\* featured_image is declared or the declared file did not resolve.
C9_FeaturedPolicy ==
  (variant = "publish" /\ write.kind # "none") =>
     /\ write.featured = IF declRes # None THEN declRes ELSE firstRes
     /\ meta.featured = NoFile => declRes = None

C9_Witness ==
  /\ variant = "publish" /\ write.kind # "none"
  /\ meta.featured # NoFile
  /\ declRes # None /\ firstRes # None /\ firstRes # declRes
  /\ write.featured = declRes

\* C10: in both scripts/ variants the post request is a create exactly when
\* find_existing_post returned None, and a failed slug lookup returns None,
\* so a create follows it.
C10_CreateIffLookupNone ==
  (variant \in {"publish", "strict"} /\ write.kind # "none") =>
     /\ write.kind = "create" <=> write.found = None
     /\ write.lookup = "err" => (write.found = None /\ write.kind = "create")

C10_Witness ==
  /\ variant = "publish"
  /\ write.lookup = "err" /\ write.existed
  /\ write.kind = "create"

====
